---------------------------- MODULE Spec2Model ----------------------------
(***************************************************************************)
(* Cross-Chain Arbitrage Bot: the trade registry kept in the Streamlit     *)
(* session state (dashboard.py, trade_executor.py), the three-leg          *)
(* executor (blockchain_interface.py) and the opportunity finder with its  *)
(* advisory risk score (arbitrage_finder.py, ai_strategy.py).              *)
(*                                                                         *)
(* The monitoring loops of the finder and of the price fetcher              *)
(* (price_fetcher.py) are modelled as well.                                *)
(*                                                                         *)
(* Five specifications share the variables:                                *)
(*   SpecRegistry  execute_opportunity / cancel_trade / update_trade_progress *)
(*   SpecExec      BlockchainInterface.execute_arbitrage, one await at a time *)
(*   SpecFinder    find_opportunities, analyze_opportunity, validate_opportunity *)
(*   SpecMonitor   ArbitrageFinder.monitor_opportunities                      *)
(*   SpecPrices    PriceFetcher.fetch_all_prices, monitor_price_changes       *)
(***************************************************************************)
EXTENDS Integers, Sequences, FiniteSets, TLC

VARIABLES
    \* ---- registry: st.session_state and the Opportunity objects' __dict__
    attrs,              \* attrs[o]: the __dict__ of Opportunity object o
    active_trades,      \* st.session_state.active_trades: list of object references
    historical_trades,  \* st.session_state.historical_trades: list of dict references
    clock,              \* datetime.now(), advanced whenever it is read
    lastMessage,        \* the last st.success / st.error shown
    \* ---- one call of BlockchainInterface.execute_arbitrage
    pc,                 \* where the coroutine is: idle, buy, bridge, sell, done
    opportunity,        \* the argument of the call
    result,             \* the result dict
    buy_tx,             \* local buy_tx (None until assigned)
    bridge_tx,          \* local bridge_tx (None: not in locals())
    calls,              \* the leg submissions made so far, in order
    \* ---- ArbitrageFinder.find_opportunities and validate_opportunity
    fpc,                \* where find_opportunities is: idle, analyze, optimize,
                        \* returned, raised
    raw_opportunities,  \* the list _find_raw_opportunities returned
    opp_idx,            \* position of the for loop in raw_opportunities
    opportunities,      \* the list being built and returned
    ai_analysis,        \* local ai_analysis of the current iteration
    advisory,           \* what the advisory service did in the current iteration
    validation,         \* the last validate_opportunity call: argument and outcome
    \* ---- ArbitrageFinder.monitor_opportunities
    mpc,                \* where the coroutine is: idle, scan, sleep, crashed
    callbacks,          \* the opportunities callback was awaited with, in order
    stop_requested,     \* whether the stop signal of the design has been given
    \* ---- PriceFetcher.fetch_all_prices and monitor_price_changes
    ppc,                \* where the coroutine is: idle, fetch, blocked, fetched,
                        \* sleep, or the exception that ended it
    responses,          \* what each quote source did in the current cycle
    current_prices,     \* local current_prices: the dict fetch_all_prices returned
    previous_prices,    \* local previous_prices
    notifications       \* the callback calls of the current cycle, in order

registryVars == <<attrs, active_trades, historical_trades, clock, lastMessage>>

execVars == <<pc, opportunity, result, buy_tx, bridge_tx, calls>>

finderVars == <<fpc, raw_opportunities, opp_idx, opportunities, ai_analysis,
                advisory, validation>>

monitorVars == <<mpc, callbacks, stop_requested>>

priceVars == <<ppc, responses, current_prices, previous_prices, notifications>>

vars == <<attrs, active_trades, historical_trades, clock, lastMessage,
          pc, opportunity, result, buy_tx, bridge_tx, calls,
          fpc, raw_opportunities, opp_idx, opportunities, ai_analysis,
          advisory, validation,
          mpc, callbacks, stop_requested,
          ppc, responses, current_prices, previous_prices, notifications>>

-----------------------------------------------------------------------------
(* Bounds *)

\* Opportunity objects that callers hold references to.
NumOpps == 3
\* Cap on the number of execute requests (entries ever put into active_trades).
MaxTrades == 3
\* Longest list of raw opportunities one scan works through.
MaxRaw == 2

-----------------------------------------------------------------------------
(* Python helpers *)

\* d[k] = v on a dict: adds the key when absent.
SetItem(d, k, v) == [x \in DOMAIN d \cup {k} |-> IF x = k THEN v ELSE d[x]]

\* d.get(k, default)
Get(d, k, default) == IF k \in DOMAIN d THEN d[k] ELSE default

\* list.pop(i) leaves the list without its i-th element (1-based here).
RemoveAt(s, i) == [j \in 1..(Len(s) - 1) |-> IF j < i THEN s[j] ELSE s[j + 1]]

Last(s) == s[Len(s)]

-----------------------------------------------------------------------------
(* Registry: dashboard.py and trade_executor.py *)

OppIds == 1..NumOpps

\* The dataclass fields that identify an opportunity.  Odd-numbered objects are
\* instances of the sample opportunity of _find_raw_opportunities (each scan
\* builds a new object with the same fields); even-numbered ones differ in the
\* source chain.
ArbitrageOpportunity(o) ==
    [source_chain      |-> IF o % 2 = 1 THEN "ethereum" ELSE "bsc",
     target_chain      |-> "polygon",
     token_pair        |-> <<"WETH", "USDT">>,
     profit_percentage |-> 120]

\* The deduplication key of the design: chains, token pair and price bucket.
Fingerprint(d) ==
    <<d.source_chain, d.target_chain, d.token_pair, d.profit_percentage>>

\* The status strings update_trade_progress is called with.
ProgressStatuses == {"Acquiring", "Bridged", "Settled"}
ProgressValues == {50}

\* execute_opportunity(bot, opportunity): appends the object, unconditionally.
execute_opportunity(o) ==
    /\ Len(active_trades) + Len(historical_trades) < MaxTrades
    /\ active_trades' = Append(active_trades, o)
    /\ lastMessage' = "Trade executed successfully!"
    /\ UNCHANGED <<attrs, historical_trades, clock>>
    /\ UNCHANGED <<execVars, finderVars, monitorVars, priceVars>>

\* cancel_trade(bot, trade_idx), trade_idx counted from 0 as in the code.
\* trade.__dict__ is the object's own attribute dict: the history entry is a
\* reference to it, and the two assignments write the object's attributes.
cancel_trade(trade_idx) ==
    IF trade_idx < Len(active_trades)
    THEN LET trade == active_trades[trade_idx + 1]
             d1 == SetItem(attrs[trade], "status", "Cancelled")
             d2 == SetItem(d1, "timestamp", clock)
         IN /\ active_trades' = RemoveAt(active_trades, trade_idx + 1)
            /\ lastMessage' = "Trade cancelled successfully"
            /\ attrs' = [attrs EXCEPT ![trade] = d2]
            /\ clock' = clock + 1
            /\ historical_trades' = Append(historical_trades, trade)
            /\ UNCHANGED <<execVars, finderVars, monitorVars, priceVars>>
    ELSE \* pop raises IndexError, caught by the except clause
         /\ lastMessage' = "Error cancelling trade"
         /\ UNCHANGED <<attrs, active_trades, historical_trades, clock>>
         /\ UNCHANGED <<execVars, finderVars, monitorVars, priceVars>>

\* update_trade_progress(trade_idx, progress, status)
update_trade_progress(trade_idx, progress, status) ==
    /\ 0 <= trade_idx /\ trade_idx < Len(active_trades)
    /\ LET trade == active_trades[trade_idx + 1]
           d1 == SetItem(attrs[trade], "progress", progress)
           d2 == SetItem(d1, "status", status)
       IN attrs' = [attrs EXCEPT ![trade] = d2]
    /\ UNCHANGED <<active_trades, historical_trades, clock, lastMessage>>
    /\ UNCHANGED <<execVars, finderVars, monitorVars, priceVars>>

ExecuteOpportunity == \E o \in OppIds : execute_opportunity(o)

CancelTrade == \E trade_idx \in 0..MaxTrades : cancel_trade(trade_idx)

UpdateTradeProgress ==
    \E trade_idx \in 0..MaxTrades, p \in ProgressValues, s \in ProgressStatuses :
        update_trade_progress(trade_idx, p, s)

InitRegistry ==
    /\ attrs = [o \in OppIds |-> ArbitrageOpportunity(o)]
    /\ active_trades = <<>>
    /\ historical_trades = <<>>
    /\ clock = 1
    /\ lastMessage = "none"

NextRegistry ==
    \/ ExecuteOpportunity
    \/ CancelTrade
    \/ UpdateTradeProgress

-----------------------------------------------------------------------------
(* Registry claims *)

\* A trade is in flight while an entry for its object is in active_trades.
InFlight(o) == \E i \in 1..Len(active_trades) : active_trades[i] = o

\* The state of a registry entry: its status attribute; an object that was only
\* appended by execute_opportunity has none yet and counts as Pending.
TradeStatus(d) == Get(d, "status", "Pending")

\* The states from which the design allows a cancellation.
CancellableFrom == {"Pending", "Acquired", "Bridged"}

\* C1: for every fingerprint at most one non-terminal trade exists, i.e. no two
\* entries of active_trades carry the same fingerprint.
C1_OneActiveTradePerFingerprint ==
    \A i, j \in 1..Len(active_trades) :
        i # j => Fingerprint(attrs[active_trades[i]]) # Fingerprint(attrs[active_trades[j]])

\* C2: an execute request for an opportunity whose trade is still in flight
\* creates no second trade and is answered with a DuplicateInFlight rejection.
C2_DuplicateExecuteRejected ==
    [][\A o \in OppIds :
          (InFlight(o) /\ execute_opportunity(o))
              => /\ active_trades' = active_trades
                 /\ lastMessage' = "DuplicateInFlight"]_vars

\* C9: a trade becomes Cancelled (cancel_trade moves it to the history) only
\* from Pending, Acquired or Bridged, never from a state in which a leg is in
\* flight, from Disposing or from a terminal state.
C9_CancelOnlyBeforeDisposal ==
    [][Len(historical_trades') > Len(historical_trades)
          => TradeStatus(attrs[Last(historical_trades')]) \in CancellableFrom]_vars

\* C10: an entry of historical_trades is immutable: no later step removes it,
\* replaces it or changes any of its fields.
C10_HistoryImmutable ==
    [][\A i \in 1..Len(historical_trades) :
          /\ i <= Len(historical_trades')
          /\ historical_trades'[i] = historical_trades[i]
          /\ attrs'[historical_trades[i]] = attrs[historical_trades[i]]]_vars

\* C22: cancel_trade conserves trades: for an index within active_trades it
\* removes exactly that entry and appends exactly one entry with status
\* "Cancelled" to historical_trades, and every other entry of both lists is
\* left as it was, fields included; for an index beyond the list it changes
\* nothing and reports an error.
C22_CancelTradeConserves ==
    [][\A trade_idx \in 0..MaxTrades :
          cancel_trade(trade_idx) =>
              IF trade_idx < Len(active_trades)
              THEN /\ active_trades' = RemoveAt(active_trades, trade_idx + 1)
                   /\ Len(historical_trades') = Len(historical_trades) + 1
                   /\ TradeStatus(attrs'[Last(historical_trades')]) = "Cancelled"
                   /\ \A i \in 1..Len(historical_trades) :
                         /\ historical_trades'[i] = historical_trades[i]
                         /\ attrs'[historical_trades[i]] = attrs[historical_trades[i]]
                   /\ \A j \in 1..Len(active_trades) :
                         j # trade_idx + 1
                             => attrs'[active_trades[j]] = attrs[active_trades[j]]
              ELSE /\ active_trades' = active_trades
                   /\ historical_trades' = historical_trades
                   /\ attrs' = attrs
                   /\ lastMessage' = "Error cancelling trade"]_vars

\* The maximum concurrent-executions limit of the design.  No setting, field
\* or check of the program holds such a limit; the value stands for a
\* configuration that allows one execution at a time.
MaxConcurrentExecutions == 1

\* The opportunities with a trade in flight, by fingerprint.
InFlightFingerprints ==
    {Fingerprint(attrs[active_trades[i]]) : i \in 1..Len(active_trades)}

\* C14: the number of executions in flight for distinct opportunities never
\* exceeds the maximum concurrent-executions limit.
C14_ConcurrentExecutionsBounded ==
    Cardinality(InFlightFingerprints) <= MaxConcurrentExecutions

-----------------------------------------------------------------------------
(* Executor: blockchain_interface.py *)

\* Python's None, and an unbound local: a dict-shaped value without any of the
\* transaction keys.
None == [none |-> TRUE]

\* Amounts are fixed-point numbers with AmountScale units to one token; a
\* product is rounded down to the unit, as a float product is rounded to the
\* nearest representable number.
AmountScale == 10 ^ 3

\* amount * 0.99 (simulated slippage) and amount * 0.995 (simulated bridge fee)
SlippagePercent == 99
BridgePermille == 995

\* self.connections: the chains execute_dex_trade can look up.
Connections == {"ethereum", "bsc", "polygon", "avalanche"}

\* The opportunities execute_arbitrage is called with: the sample route
\* (cross-chain), a single-chain route and routes from and to a chain without
\* a connection; capitals 10 and 1000, zero and a negative one.
ExecCapitals == {-10 * AmountScale, 0, 10 * AmountScale, 1000 * AmountScale}
ExecRoutes ==
    {<<"ethereum", "polygon">>, <<"ethereum", "ethereum">>,
     <<"solana", "polygon">>, <<"ethereum", "solana">>}
ExecOpportunity(route, capital) ==
    [source_chain     |-> route[1],
     source_dex       |-> "uniswap",
     target_chain     |-> route[2],
     target_dex       |-> "quickswap",
     token_pair       |-> <<"WETH", "USDT">>,
     required_capital |-> capital]
ExecOpportunities ==
    {ExecOpportunity(r, c) : r \in ExecRoutes, c \in ExecCapitals}

\* execute_dex_trade: the transaction dict of a trade that went through.
execute_dex_trade(chain, dex, action, amount, token_pair) ==
    [chain           |-> chain,
     dex             |-> dex,
     action          |-> action,
     amount          |-> amount,
     received_amount |-> (amount * SlippagePercent) \div 100,
     tx_hash         |-> "0x..."]

\* A mutation of bridge_assets: the fee is added instead of deducted.
bridge_assets_FeeAdded(from_chain, to_chain, token, amount) ==
    [from_chain      |-> from_chain,
     to_chain        |-> to_chain,
     token           |-> token,
     amount          |-> amount,
     received_amount |-> (amount * (2000 - BridgePermille)) \div 1000,
     tx_hash         |-> "0x..."]

\* bridge_assets: the transaction dict of a transfer that went through.
bridge_assets(from_chain, to_chain, token, amount) ==
    [from_chain      |-> from_chain,
     to_chain        |-> to_chain,
     token           |-> token,
     amount          |-> amount,
     received_amount |-> (amount * BridgePermille) \div 1000,
     tx_hash         |-> "0x..."]

\* The outcomes a leg can have: the submission goes through, or it raises (the
\* venue or bridge fails; self.connections[chain] raises KeyError for a chain
\* without a connection).
LegOutcomes(leg, opp) ==
    IF leg = "buy" /\ opp.source_chain \notin Connections THEN {FALSE}
    ELSE IF leg = "sell" /\ opp.target_chain \notin Connections THEN {FALSE}
    ELSE BOOLEAN

\* A mutation of AfterLeg: a failed bridge is swallowed and the sell still runs.
AfterLeg_BridgeFailureSwallowed(leg, ok, opp) ==
    IF leg = "buy"
    THEN IF ~ok THEN "done"
         ELSE IF opp.source_chain # opp.target_chain THEN "bridge" ELSE "sell"
    ELSE IF leg = "bridge" THEN "sell"
    ELSE "done"

\* A mutation of AfterLeg: a leg that failed is submitted again.
AfterLeg_RetryFailedLeg(leg, ok, opp) ==
    IF ~ok THEN leg
    ELSE IF leg = "buy"
         THEN IF opp.source_chain # opp.target_chain THEN "bridge" ELSE "sell"
    ELSE IF leg = "bridge" THEN "sell"
    ELSE "done"

\* The control flow of the try block: where the coroutine goes after a leg.
\* An exception leaves the try block: the except clause records it and the
\* function returns.
AfterLeg(leg, ok, opp) ==
    IF ~ok THEN "done"
    ELSE IF leg = "buy"
         THEN IF opp.source_chain # opp.target_chain THEN "bridge" ELSE "sell"
    ELSE IF leg = "bridge" THEN "sell"
    ELSE "done"

\* A mutation of Recorded: the except clause records nothing.
Recorded_ErrorDropped(res, leg, ok, tx) ==
    IF ok
    THEN [res EXCEPT !.transactions = Append(@, tx),
                     !.success = IF leg = "sell" THEN TRUE ELSE @]
    ELSE res

\* result['transactions'].append(tx) after a leg that went through, and
\* result['errors'].append(str(e)) in the except clause after one that raised.
Recorded(res, leg, ok, tx) ==
    IF ok
    THEN [res EXCEPT !.transactions = Append(@, tx),
                     !.success = IF leg = "sell" THEN TRUE ELSE @]
    ELSE [res EXCEPT !.errors = Append(@, leg)]

\* The call: result is initialised, no local is bound yet.
CallExecuteArbitrage ==
    /\ pc = "idle"
    /\ \E opp \in ExecOpportunities : opportunity' = opp
    /\ result' = [success |-> FALSE, transactions |-> <<>>, errors |-> <<>>]
    /\ buy_tx' = None
    /\ bridge_tx' = None
    /\ calls' = <<>>
    /\ pc' = "buy"
    /\ UNCHANGED <<registryVars, finderVars, monitorVars, priceVars>>

\* 1. await execute_dex_trade(action="buy", amount=required_capital)
BuyLeg ==
    /\ pc = "buy"
    /\ \E ok \in LegOutcomes("buy", opportunity) :
        LET tx == execute_dex_trade(opportunity.source_chain, opportunity.source_dex,
                                    "buy", opportunity.required_capital,
                                    opportunity.token_pair)
        IN /\ calls' = Append(calls, [leg |-> "buy", ok |-> ok,
                                      amount |-> opportunity.required_capital])
           /\ buy_tx' = IF ok THEN tx ELSE buy_tx
           /\ result' = Recorded(result, "buy", ok, tx)
           /\ pc' = AfterLeg("buy", ok, opportunity)
    /\ UNCHANGED <<opportunity, bridge_tx>>
    /\ UNCHANGED <<registryVars, finderVars, monitorVars, priceVars>>

\* 2. await bridge_assets(amount=buy_tx['received_amount'])
BridgeLeg ==
    /\ pc = "bridge"
    /\ \E ok \in LegOutcomes("bridge", opportunity) :
        LET tx == bridge_assets(opportunity.source_chain, opportunity.target_chain,
                                opportunity.token_pair[1], buy_tx.received_amount)
        IN /\ calls' = Append(calls, [leg |-> "bridge", ok |-> ok,
                                      amount |-> buy_tx.received_amount])
           /\ bridge_tx' = IF ok THEN tx ELSE bridge_tx
           /\ result' = Recorded(result, "bridge", ok, tx)
           /\ pc' = AfterLeg("bridge", ok, opportunity)
    /\ UNCHANGED <<opportunity, buy_tx>>
    /\ UNCHANGED <<registryVars, finderVars, monitorVars, priceVars>>

\* A mutation of SellAmount: the sell is always given what the buy received.
SellAmount_IgnoresBridge(buy, bridge) == buy.received_amount

\* The amount handed to the sell: bridge_tx['received_amount'] if 'bridge_tx'
\* in locals() else buy_tx['received_amount'].
SellAmount(buy, bridge) ==
    IF bridge # None THEN bridge.received_amount ELSE buy.received_amount

\* 3. await execute_dex_trade(action="sell", amount=bridge_tx['received_amount']
\*    if 'bridge_tx' in locals() else buy_tx['received_amount'])
SellLeg ==
    /\ pc = "sell"
    /\ \E ok \in LegOutcomes("sell", opportunity) :
        LET amount == SellAmount(buy_tx, bridge_tx)
            tx == execute_dex_trade(opportunity.target_chain, opportunity.target_dex,
                                    "sell", amount, opportunity.token_pair)
        IN /\ calls' = Append(calls, [leg |-> "sell", ok |-> ok, amount |-> amount])
           /\ result' = Recorded(result, "sell", ok, tx)
           /\ pc' = AfterLeg("sell", ok, opportunity)
    /\ UNCHANGED <<opportunity, buy_tx, bridge_tx>>
    /\ UNCHANGED <<registryVars, finderVars, monitorVars, priceVars>>

\* return result
ReturnResult ==
    /\ pc = "done"
    /\ pc' = "idle"
    /\ UNCHANGED <<opportunity, result, buy_tx, bridge_tx, calls>>
    /\ UNCHANGED <<registryVars, finderVars, monitorVars, priceVars>>

InitExec ==
    /\ pc = "idle"
    /\ opportunity = ExecOpportunity(<<"ethereum", "polygon">>, 10 * AmountScale)
    /\ result = [success |-> FALSE, transactions |-> <<>>, errors |-> <<>>]
    /\ buy_tx = None
    /\ bridge_tx = None
    /\ calls = <<>>

NextExec ==
    \/ CallExecuteArbitrage
    \/ BuyLeg
    \/ BridgeLeg
    \/ SellLeg
    \/ ReturnResult

-----------------------------------------------------------------------------
(* Executor claims *)

\* The legs a call has to run for its opportunity, in order.
Plan(opp) ==
    IF opp.source_chain # opp.target_chain
    THEN <<"buy", "bridge", "sell">>
    ELSE <<"buy", "sell">>

\* C3: the legs are submitted in the order buy, bridge (cross-chain only),
\* sell without skipping one, and after a leg that failed no further leg is
\* submitted: the submissions are a prefix of the plan and only the last of
\* them can be a failure.
C3_LegsInOrderStopOnFailure ==
    /\ Len(calls) <= Len(Plan(opportunity))
    /\ \A n \in 1..Len(calls) : calls[n].leg = Plan(opportunity)[n]
    /\ \A n \in 1..(Len(calls) - 1) : calls[n].ok

\* C3 witness: a buy that went through, a bridge that failed, and the call is
\* over without a sell.
C3_Witness ==
    /\ pc = "done"
    /\ Len(calls) = 2
    /\ calls[1].ok /\ calls[2].leg = "bridge" /\ ~calls[2].ok

\* C4: for a non-negative requested capital the received amounts never grow
\* from one recorded leg to the next, and the first is at most the capital.
C4_ReceivedAmountNonIncreasing ==
    opportunity.required_capital >= 0 =>
        LET txs == result.transactions
        IN /\ Len(txs) >= 1 => txs[1].received_amount <= opportunity.required_capital
           /\ \A n \in 1..(Len(txs) - 1) :
                 txs[n + 1].received_amount <= txs[n].received_amount

\* C4 witness: a settled cross-chain trade with three recorded legs and a
\* positive capital.
C4_Witness ==
    /\ pc = "done"
    /\ result.success
    /\ Len(result.transactions) = 3
    /\ opportunity.required_capital > 0

\* The positions a result names with chain, token and amount: a dedicated
\* stranded-position entry, or any recorded transaction that carries all three.
StrandedPositions(res) ==
    (IF "stranded_position" \in DOMAIN res THEN {res.stranded_position} ELSE {})
    \cup
    {[chain |-> res.transactions[n].chain,
      token |-> res.transactions[n].token,
      amount |-> res.transactions[n].received_amount] :
        n \in {m \in 1..Len(res.transactions) :
                 {"chain", "token", "received_amount"} \subseteq DOMAIN res.transactions[m]}}

\* C5: when the buy went through and the bridge failed, the final result is a
\* failure that names the stranded position (source chain, token, the amount
\* the buy received) and no sell was submitted.
C5_BridgeFailureKeepsStrandedPosition ==
    (/\ pc = "done"
     /\ Len(calls) >= 2
     /\ calls[1].ok /\ calls[2].leg = "bridge" /\ ~calls[2].ok)
        => /\ ~result.success
           /\ Len(calls) = 2
           /\ \E p \in StrandedPositions(result) :
                 /\ p.chain = opportunity.source_chain
                 /\ p.token = opportunity.token_pair[1]
                 /\ p.amount = buy_tx.received_amount

\* The call of a leg among the submissions made so far, as a set of positions.
CallsOf(leg) == {n \in 1..Len(calls) : calls[n].leg = leg}

CrossChain(opp) == opp.source_chain # opp.target_chain

\* C15: the bridge is submitted only for a cross-chain route and, once the sell
\* is submitted, it has run exactly when the route is cross-chain; it transfers
\* what the buy recorded as received, and the sell is given what the bridge
\* recorded as received when a bridge ran, else what the buy recorded.
C15_BridgeIffCrossChainAmountsChained ==
    LET txs == result.transactions
    IN /\ CallsOf("bridge") # {} => CrossChain(opportunity)
       /\ CallsOf("sell") # {} =>
             (CallsOf("bridge") # {} <=> CrossChain(opportunity))
       /\ \A n \in CallsOf("bridge") : calls[n].amount = txs[1].received_amount
       /\ \A n \in CallsOf("sell") :
             calls[n].amount = IF CrossChain(opportunity)
                               THEN txs[2].received_amount
                               ELSE txs[1].received_amount

\* C15 witness: a settled cross-chain trade with a positive capital: the sell
\* was given the bridge's received amount, which is less than the buy's.
C15_Witness ==
    /\ pc = "done"
    /\ result.success
    /\ CrossChain(opportunity)
    /\ opportunity.required_capital > 0
    /\ calls[3].amount = bridge_tx.received_amount
    /\ calls[3].amount < buy_tx.received_amount

\* C18: within one call each of the legs buy, bridge and sell is submitted at
\* most once.
C18_EachLegSubmittedAtMostOnce ==
    \A leg \in {"buy", "bridge", "sell"} : Cardinality(CallsOf(leg)) <= 1

\* C18 witness: the call is over after a leg failed, and that leg was
\* submitted once.
C18_Witness ==
    /\ pc = "done"
    /\ Len(result.errors) = 1
    /\ ~calls[Len(calls)].ok
    /\ Cardinality(CallsOf(calls[Len(calls)].leg)) = 1

\* The leg a recorded transaction belongs to: the action of a DEX trade; a
\* bridge transaction has no action.
TxLeg(tx) == IF "action" \in DOMAIN tx THEN tx.action ELSE "bridge"

\* C20: the result handed back is well-formed: success exactly when errors is
\* empty; on success the transactions are those of the plan, in order; on
\* failure errors has one entry and the transactions are a proper prefix of
\* the plan's.
C20_ResultWellFormed ==
    pc = "done" =>
        LET txs == result.transactions
            plan == Plan(opportunity)
        IN /\ result.success <=> result.errors = <<>>
           /\ Len(txs) <= Len(plan)
           /\ \A n \in 1..Len(txs) : TxLeg(txs[n]) = plan[n]
           /\ result.success => Len(txs) = Len(plan)
           /\ ~result.success => (Len(result.errors) = 1 /\ Len(txs) < Len(plan))

\* C20 witness: a cross-chain call whose sell failed: two transactions and
\* one error are handed back.
C20_Witness ==
    /\ pc = "done"
    /\ ~result.success
    /\ Len(result.transactions) = 2
    /\ Len(result.errors) = 1

-----------------------------------------------------------------------------
(* Finder and advisory strategy: arbitrage_finder.py, ai_strategy.py *)

\* Scores are fixed-point numbers with ScoreScale units to 1.0; profit
\* percentages are in hundredths of a percent; dollar amounts of an opportunity
\* are in thousandths of a dollar, its required capital in dollars.
ScoreScale == 10 ^ 4

\* self.min_profit_threshold = 0.5 (percent)
MinProfitThreshold == 50
\* self.confidence_threshold = 0.85
ConfidenceThreshold == 8500
\* the risk score below which validate_opportunity refuses: 0.7
ExecutionRiskThreshold == 7000
\* base_score = 0.5
BaseScore == 5000
\* the cap of profit_score: 0.3
ProfitScoreCap == 3000
\* capital_risk = max(0, 0.2 - required_capital / 100000)
CapitalRiskBase == 2000
\* the default sentiment of _analyze_text_sentiment's except clause: 0.5
NeutralSentiment == 5000
\* the market sentiment score below which validate_opportunity refuses: 0.5
SentimentFloor == 5000

Min(a, b) == IF a <= b THEN a ELSE b
Max(a, b) == IF a >= b THEN a ELSE b

\* An ArbitrageOpportunity as the finder handles it.
RawOpportunity(profit, profit_usd, capital) ==
    [source_chain         |-> "ethereum",
     target_chain         |-> "polygon",
     token_pair           |-> <<"WETH", "USDT">>,
     profit_percentage    |-> profit,
     estimated_profit_usd |-> profit_usd,
     required_capital     |-> capital,
     execution_path       |-> <<"buy", "bridge", "sell">>,
     gas_costs            |-> <<50, 1>>,
     ai_analysis          |-> None]

\* The sample opportunity of _find_raw_opportunities: 1.2 %, $150, $10000.
SampleOpportunity == RawOpportunity(120, 150000, 10000)

\* What _find_raw_opportunities can hand to the loop.  The placeholder returns
\* the sample alone; a scan of real prices yields any opportunity, so the loop
\* is also run on one below the profit threshold (0.1 %), on one whose gas
\* exceeds its profit, on the sample with a large capital ($200000) and on a
\* losing one (-20 %) with a large capital.
RawOpps ==
    {SampleOpportunity,
     RawOpportunity(10, 10000, 10000),
     RawOpportunity(120, 10, 10000),
     RawOpportunity(120, 150000, 200000),
     RawOpportunity(-2000, -40000000, 200000)}

RawLists == UNION {[1..n -> RawOpps] : n \in 1..MaxRaw}

\* What openai.Completion.create yields in _analyze_text_sentiment: it raises
\* (or the text is no number), or the text parses to a float.  The prompt asks
\* for a number between -1 and 1; nothing checks it.
SentimentReplies ==
    {[ok |-> FALSE, value |-> 0]}
    \cup {[ok |-> TRUE, value |-> v] : v \in {-3 * ScoreScale, -ScoreScale, 0, ScoreScale}}

\* _analyze_text_sentiment: (sentiment_score + 1) / 2, 0.5 on any exception.
_analyze_text_sentiment(reply) ==
    IF reply.ok THEN (reply.value + ScoreScale) \div 2 ELSE NeutralSentiment

\* _calculate_risk_score
_calculate_risk_score(reply, opportunity_data) ==
    LET base_score      == BaseScore
        profit_score    == Min(opportunity_data.profit_percentage * 10, ProfitScoreCap)
        capital_risk    == Max(0, CapitalRiskBase - opportunity_data.required_capital \div 10)
        sentiment_score == _analyze_text_sentiment(reply)
    IN Min(base_score + profit_score + capital_risk + sentiment_score, ScoreScale)

\* A mutation of analyze_opportunity: the recommendation is taken against the
\* execution threshold 0.7 instead of confidence_threshold.
analyze_opportunity_LowThreshold(opportunity_data, chat, reply) ==
    IF chat = "error" THEN None
    ELSE LET risk_score == _calculate_risk_score(reply, opportunity_data)
         IN [risk_score     |-> risk_score,
             recommendation |-> IF risk_score >= ExecutionRiskThreshold
                                THEN "execute" ELSE "skip",
             confidence     |-> risk_score]

\* analyze_opportunity: chat is what openai.ChatCompletion.acreate does ("ok" or
\* "error"), reply what the sentiment completion does.  The analysis text and
\* the timestamp of the returned dict are left out.
analyze_opportunity(opportunity_data, chat, reply) ==
    IF chat = "error" THEN None
    ELSE LET risk_score == _calculate_risk_score(reply, opportunity_data)
         IN [risk_score     |-> risk_score,
             recommendation |-> IF risk_score >= ConfidenceThreshold
                                THEN "execute" ELSE "skip",
             confidence     |-> risk_score]

\* A mutation of optimize_execution_path: the prompt is built without error and
\* the call yields None (the except clause, or the parser's pass).
optimize_execution_path_ReturnsNone(paths) ==
    [raised |-> FALSE, value |-> None]

\* optimize_execution_path: _create_path_optimization_prompt is called before
\* the try block and evaluates json.dumps(paths), but ai_strategy.py never
\* imports json: the call raises NameError, whatever the advisory service does.
optimize_execution_path(paths) ==
    [raised |-> TRUE, value |-> "NameError"]

\* predict_price_movement: _get_historical_data returns None (its body is
\* pass) and _create_price_prediction_prompt, called before the try block,
\* evaluates historical_data.tail(): the call raises AttributeError.
predict_price_movement(token) ==
    [raised |-> TRUE, value |-> "AttributeError"]

\* analyze_market_sentiment: it calls self._create_sentiment_analysis_prompt,
\* which AIStrategy does not define, before the try block: AttributeError.
analyze_market_sentiment(token) ==
    [raised |-> TRUE, value |-> "AttributeError"]

\* sum(opportunity.gas_costs.values())
GasSum(opp) == opp.gas_costs[1] + opp.gas_costs[2]

\* validate_opportunity: "True", "False", or the exception that leaves it.
validate_opportunity(opp) ==
    IF opp.profit_percentage < MinProfitThreshold THEN "False"
    ELSE IF GasSum(opp) > opp.estimated_profit_usd THEN "False"
    ELSE IF opp.ai_analysis # None
    THEN IF opp.ai_analysis.risk_score < ExecutionRiskThreshold THEN "False"
         ELSE LET price_prediction == predict_price_movement(opp.token_pair[1])
                  sentiment == analyze_market_sentiment(opp.token_pair[1])
              IN IF price_prediction.raised THEN price_prediction.value
                 ELSE IF /\ price_prediction.value # None
                         /\ Get(price_prediction.value, "direction", "") = "down"
                      THEN "False"
                 ELSE IF sentiment.raised THEN sentiment.value
                 ELSE IF /\ sentiment.value # None
                         /\ Get(sentiment.value, "score", 0) < SentimentFloor
                      THEN "False"
                 ELSE "True"
    ELSE "True"

\* The opportunities validate_opportunity is called with: a raw one (no
\* analysis), or one that carries the analysis analyze_opportunity gave it.
ValidateArgs ==
    RawOpps \cup
    {[o EXCEPT !.ai_analysis = analyze_opportunity(o, "ok", reply)] :
        o \in RawOpps, reply \in SentimentReplies}

\* find_opportunities is called: the raw opportunities are found.
FindStart ==
    /\ fpc = "idle"
    /\ \E raw \in RawLists : raw_opportunities' = raw
    /\ opportunities' = <<>>
    /\ opp_idx' = 1
    /\ ai_analysis' = None
    /\ advisory' = [chat |-> "none", sentiment |-> "none"]
    /\ fpc' = "analyze"
    /\ UNCHANGED validation
    /\ UNCHANGED <<registryVars, execVars, monitorVars, priceVars>>

\* The end of one iteration of the for loop: the next opportunity, or return.
NextIteration ==
    IF opp_idx < Len(raw_opportunities)
    THEN opp_idx' = opp_idx + 1 /\ fpc' = "analyze"
    ELSE opp_idx' = opp_idx /\ fpc' = "returned"

\* ai_analysis = await analyze_opportunity({...}) and the test that follows.
AnalyzeOpportunity ==
    /\ fpc = "analyze"
    /\ \E chat \in {"ok", "error"}, reply \in SentimentReplies :
        /\ chat = "error" => reply = [ok |-> FALSE, value |-> 0]
        /\ LET opp == raw_opportunities[opp_idx]
               a == analyze_opportunity(opp, chat, reply)
           IN /\ ai_analysis' = a
              /\ advisory' = [chat |-> chat,
                              sentiment |-> IF chat = "error" THEN "none"
                                            ELSE IF reply.ok THEN "ok" ELSE "error"]
              /\ IF a # None /\ a.recommendation = "execute"
                 THEN fpc' = "optimize" /\ opp_idx' = opp_idx
                 ELSE NextIteration
    /\ UNCHANGED <<raw_opportunities, opportunities, validation>>
    /\ UNCHANGED <<registryVars, execVars, monitorVars, priceVars>>

\* optimized_path = await optimize_execution_path(opp.execution_path); when it
\* returns, the analysis is attached and the opportunity appended.
OptimizeAndAppend ==
    /\ fpc = "optimize"
    /\ LET opp == raw_opportunities[opp_idx]
           optimized_path == optimize_execution_path(opp.execution_path)
       IN IF optimized_path.raised
          THEN /\ fpc' = "raised"
               /\ UNCHANGED <<opportunities, opp_idx>>
          ELSE /\ opportunities' =
                     Append(opportunities,
                            [opp EXCEPT !.ai_analysis = ai_analysis,
                                        !.execution_path =
                                            IF optimized_path.value # None
                                            THEN optimized_path.value ELSE @])
               /\ NextIteration
    /\ UNCHANGED <<raw_opportunities, ai_analysis, advisory, validation>>
    /\ UNCHANGED <<registryVars, execVars, monitorVars, priceVars>>

\* find_opportunities is left: the list is returned or the exception propagates.
FindReturn ==
    /\ fpc \in {"returned", "raised"}
    /\ fpc' = "idle"
    /\ UNCHANGED <<raw_opportunities, opp_idx, opportunities, ai_analysis,
                   advisory, validation>>
    /\ UNCHANGED <<registryVars, execVars, monitorVars, priceVars>>

\* A call of validate_opportunity.
ValidateOpportunity ==
    /\ \E opp \in ValidateArgs :
        validation' = [opportunity |-> opp, outcome |-> validate_opportunity(opp)]
    /\ UNCHANGED <<fpc, raw_opportunities, opp_idx, opportunities, ai_analysis,
                   advisory>>
    /\ UNCHANGED <<registryVars, execVars, monitorVars, priceVars>>

InitFinder ==
    /\ fpc = "idle"
    /\ raw_opportunities = <<>>
    /\ opp_idx = 1
    /\ opportunities = <<>>
    /\ ai_analysis = None
    /\ advisory = [chat |-> "none", sentiment |-> "none"]
    /\ validation = None

NextFinder ==
    \/ FindStart
    \/ AnalyzeOpportunity
    \/ OptimizeAndAppend
    \/ FindReturn
    \/ ValidateOpportunity

-----------------------------------------------------------------------------
(* Finder claims *)

C7_AdvisoryFailureNeverAccepts ==
    /\ (advisory.chat = "error" \/ advisory.sentiment = "error")
          => (ai_analysis = None \/ ai_analysis.recommendation # "execute")
    /\ (validation # None /\ validation.opportunity.ai_analysis = None)
          => validation.outcome # "True"

\* C8: every risk score analyze_opportunity computes lies in [0, 1].
C8_RiskScoreInUnitInterval ==
    ai_analysis # None
        => (0 <= ai_analysis.risk_score /\ ai_analysis.risk_score <= ScoreScale)

\* The maximum capital per trade of the design, in dollars.  The finder reads
\* no such limit; the value is the default of the "Maximum Trade Size (USD)"
\* input of the trade executor's settings form, which nothing reads either.
MaxCapitalPerTrade == 10000

\* The deterministic gates of the design: profit threshold, gas cost against
\* profit, capital limit.
GatesPass(opp) ==
    /\ opp.profit_percentage >= MinProfitThreshold
    /\ GasSum(opp) <= opp.estimated_profit_usd
    /\ opp.required_capital <= MaxCapitalPerTrade

\* C16: the advisory service is called for an opportunity only after the
\* deterministic gates have passed for it: every step in which
\* find_opportunities awaits analyze_opportunity is for an opportunity that
\* passes the three gates.
C16_AdvisoryOnlyAfterGates ==
    [][AnalyzeOpportunity => GatesPass(raw_opportunities[opp_idx])]_vars

\* C17: validate_opportunity accepts only an opportunity that passes the three
\* gates and carries a score of at least 0.7, and returns False whenever a gate
\* fails or the score is below 0.7.
C17_AcceptNeedsGatesAndScore ==
    validation # None =>
        LET opp == validation.opportunity
            scored == opp.ai_analysis # None
        IN /\ validation.outcome = "True"
                 => /\ GatesPass(opp)
                    /\ scored
                    /\ opp.ai_analysis.risk_score >= ExecutionRiskThreshold
           /\ (\/ ~GatesPass(opp)
               \/ (scored /\ opp.ai_analysis.risk_score < ExecutionRiskThreshold))
                 => validation.outcome = "False"

\* An analysis that lets an opportunity into the returned list.
Selected(analysis) ==
    /\ analysis # None
    /\ analysis.recommendation = "execute"
    /\ analysis.risk_score >= ConfidenceThreshold

\* An opportunity without the two fields find_opportunities assigns.
AsFound(opp) == [opp EXCEPT !.ai_analysis = None, !.execution_path = <<>>]

\* Whether list s, from position i on, is found in list t from position j on,
\* in the same order.
RECURSIVE IsSubsequence(_, _, _, _)
IsSubsequence(s, i, t, j) ==
    IF i > Len(s) THEN TRUE
    ELSE IF j > Len(t) THEN FALSE
    ELSE IF AsFound(s[i]) = AsFound(t[j]) THEN IsSubsequence(s, i + 1, t, j + 1)
    ELSE IsSubsequence(s, i, t, j + 1)

\* C21: the list find_opportunities builds and returns consists of raw
\* opportunities in their original order, each with an analysis that is not
\* None, recommends "execute" and has risk_score >= 0.85; the same holds for
\* the opportunity that is about to be appended.
C21_ReturnedAreSelectedRawInOrder ==
    /\ IsSubsequence(opportunities, 1, raw_opportunities, 1)
    /\ \A n \in 1..Len(opportunities) : Selected(opportunities[n].ai_analysis)
    /\ fpc = "optimize" => Selected(ai_analysis)

\* C21 witness: find_opportunities has returned after working through two raw
\* opportunities, the last of which the analysis told it to skip; the list it
\* returns does not hold that opportunity.
C21_Witness ==
    /\ fpc = "returned"
    /\ Len(raw_opportunities) = 2
    /\ ai_analysis # None
    /\ ai_analysis.recommendation = "skip"
    /\ \A n \in 1..Len(opportunities) :
          AsFound(opportunities[n]) # AsFound(raw_opportunities[2])

-----------------------------------------------------------------------------
(* The monitoring loop: ArbitrageFinder.monitor_opportunities *)

\* for opp in opportunities: if await self.validate_opportunity(opp): await
\* callback(opp), from position i on.  An exception leaving
\* validate_opportunity leaves the loop and the coroutine.
RECURSIVE MonitorLoop(_, _, _)
MonitorLoop(opps, i, cbs) ==
    IF i > Len(opps) THEN [raised |-> FALSE, callbacks |-> cbs]
    ELSE LET valid == validate_opportunity(opps[i])
         IN IF valid = "True" THEN MonitorLoop(opps, i + 1, Append(cbs, opps[i]))
            ELSE IF valid = "False" THEN MonitorLoop(opps, i + 1, cbs)
            ELSE [raised |-> TRUE, callbacks |-> cbs]

\* monitor_opportunities(callback) is called and enters while True.
MonitorStart ==
    /\ mpc = "idle"
    /\ mpc' = "scan"
    /\ callbacks' = <<>>
    /\ UNCHANGED stop_requested
    /\ UNCHANGED <<registryVars, execVars, finderVars, priceVars>>

\* opportunities = await self.find_opportunities(): the call is made.
MonitorFind == mpc = "scan" /\ FindStart

\* find_opportunities is left.  An exception propagates through the await and
\* the while loop, which has no handler; a returned list is worked through
\* and the coroutine reaches asyncio.sleep(1).
MonitorResume ==
    /\ mpc = "scan"
    /\ fpc \in {"returned", "raised"}
    /\ fpc' = "idle"
    /\ IF fpc = "raised"
       THEN mpc' = "crashed" /\ UNCHANGED callbacks
       ELSE LET loop == MonitorLoop(opportunities, 1, callbacks)
            IN /\ callbacks' = loop.callbacks
               /\ mpc' = IF loop.raised THEN "crashed" ELSE "sleep"
    /\ UNCHANGED stop_requested
    /\ UNCHANGED <<raw_opportunities, opp_idx, opportunities, ai_analysis,
                   advisory, validation>>
    /\ UNCHANGED <<registryVars, execVars, priceVars>>

\* await asyncio.sleep(1) returns: the next iteration of while True.
MonitorSleep ==
    /\ mpc = "sleep"
    /\ mpc' = "scan"
    /\ UNCHANGED <<callbacks, stop_requested>>
    /\ UNCHANGED <<registryVars, execVars, finderVars, priceVars>>

\* The stop signal of the design is given.  monitor_opportunities has no
\* parameter, flag or event for it: nothing in the loop reads stop_requested.
RequestStop ==
    /\ ~stop_requested
    /\ stop_requested' = TRUE
    /\ UNCHANGED <<mpc, callbacks>>
    /\ UNCHANGED <<registryVars, execVars, finderVars, priceVars>>

InitMonitor ==
    /\ mpc = "idle"
    /\ callbacks = <<>>
    /\ stop_requested = FALSE

NextMonitor ==
    \/ MonitorStart
    \/ MonitorFind
    \/ AnalyzeOpportunity
    \/ OptimizeAndAppend
    \/ MonitorResume
    \/ MonitorSleep
    \/ RequestStop

\* C11: no error of the scan or of an advisory call ends the monitoring loop:
\* monitor_opportunities never terminates with an exception.
C11_MonitorLoopNeverCrashes == mpc # "crashed"

\* C12: once the stop signal has been given, monitor_opportunities starts no
\* new scan cycle and no new execution callback.
C12_NoNewCycleAfterStop ==
    [][stop_requested => (~MonitorFind /\ callbacks' = callbacks)]_vars

-----------------------------------------------------------------------------
(* Price fetcher: price_fetcher.py *)

\* The number of (chain, venue) pairs of supported_dexes that are modelled.
NumMarkets == 2

\* self.supported_dexes, as the keys f"{chain}_{dex}" in iteration order.
SupportedMarkets ==
    <<"ethereum_uniswap", "ethereum_sushiswap", "bsc_pancakeswap",
      "polygon_quickswap", "avalanche_traderjoe">>

Markets == SubSeq(SupportedMarkets, 1, NumMarkets)

MarketSet == {Markets[i] : i \in 1..NumMarkets}

\* The prices a venue quotes: the placeholder's 0.0, and 100, 101 and 102.
Quotes == {0, 100, 101, 102}

\* What the contract call in the try block of get_dex_price does: it returns a
\* price (the placeholder returns 0.0), it raises, or it does not respond.
SourceOutcomes ==
    {[kind |-> "returns", value |-> q] : q \in Quotes}
    \cup {[kind |-> "raises", value |-> 0], [kind |-> "hangs", value |-> 0]}

\* A float price as a dict value.
Price(p) == [price |-> p]

\* An empty dict.
EmptyDict == [m \in {} |-> None]

\* get_dex_price for a source that responds: the price, or None from the
\* except clause.
get_dex_price(outcome) ==
    IF outcome.kind = "returns" THEN Price(outcome.value) ELSE None

\* isinstance(result, Exception)
IsException(res) == "exception" \in DOMAIN res

\* fetch_all_prices once asyncio.gather has returned: every result that is not
\* an Exception instance gets an entry.
fetch_all_prices(outcomes) ==
    LET results == [m \in MarketSet |-> get_dex_price(outcomes[m])]
    IN [m \in {x \in MarketSet : ~IsException(results[x])} |-> results[m]]

\* The for loop of monitor_price_changes from the i-th market on, in the
\* order of current_prices.items().  The subtraction raises TypeError when a
\* price is None, the division ZeroDivisionError when the previous price is 0.
RECURSIVE CompareLoop(_, _, _, _)
CompareLoop(i, previous, current, notes) ==
    IF i > NumMarkets THEN [raised |-> "", notifications |-> notes]
    ELSE LET market == Markets[i]
         IN IF market \notin DOMAIN current \/ market \notin DOMAIN previous
            THEN CompareLoop(i + 1, previous, current, notes)
            ELSE LET price == current[market]
                     before == previous[market]
                 IN IF price = None \/ before = None
                    THEN [raised |-> "TypeError", notifications |-> notes]
                    ELSE IF before.price = 0
                    THEN [raised |-> "ZeroDivisionError", notifications |-> notes]
                    ELSE LET diff == price.price - before.price
                             absdiff == IF diff < 0 THEN -diff ELSE diff
                             absbefore == IF before.price < 0 THEN -before.price
                                          ELSE before.price
                         IN CompareLoop(i + 1, previous, current,
                                IF absdiff * 100 > absbefore
                                THEN Append(notes, <<market, before, price>>)
                                ELSE notes)

\* monitor_price_changes(token_pair, callback) is called: previous_prices = {}.
MonitorPriceChanges ==
    /\ ppc = "idle"
    /\ ppc' = "fetch"
    /\ previous_prices' = EmptyDict
    /\ UNCHANGED <<responses, current_prices, notifications>>
    /\ UNCHANGED <<registryVars, execVars, finderVars, monitorVars>>

\* current_prices = await self.fetch_all_prices(token_pair): gather waits for
\* every task, without a timeout, so one source that does not respond keeps
\* the coroutine waiting.
FetchAllPrices ==
    /\ ppc = "fetch"
    /\ \E outcomes \in [MarketSet -> SourceOutcomes] :
        /\ responses' = outcomes
        /\ IF \E m \in MarketSet : outcomes[m].kind = "hangs"
           THEN ppc' = "blocked" /\ UNCHANGED current_prices
           ELSE ppc' = "fetched" /\ current_prices' = fetch_all_prices(outcomes)
    /\ UNCHANGED <<previous_prices, notifications>>
    /\ UNCHANGED <<registryVars, execVars, finderVars, monitorVars>>

\* The for loop over current_prices.items() and previous_prices =
\* current_prices; an exception in the loop ends the coroutine.
CompareAndNotify ==
    /\ ppc = "fetched"
    /\ LET loop == CompareLoop(1, previous_prices, current_prices, <<>>)
       IN /\ notifications' = loop.notifications
          /\ IF loop.raised # ""
             THEN ppc' = loop.raised /\ UNCHANGED previous_prices
             ELSE ppc' = "sleep" /\ previous_prices' = current_prices
    /\ UNCHANGED <<responses, current_prices>>
    /\ UNCHANGED <<registryVars, execVars, finderVars, monitorVars>>

\* await asyncio.sleep(1) returns: the next iteration of while True.
PriceSleep ==
    /\ ppc = "sleep"
    /\ ppc' = "fetch"
    /\ UNCHANGED <<responses, current_prices, previous_prices, notifications>>
    /\ UNCHANGED <<registryVars, execVars, finderVars, monitorVars>>

InitPrices ==
    /\ ppc = "idle"
    /\ responses = EmptyDict
    /\ current_prices = EmptyDict
    /\ previous_prices = EmptyDict
    /\ notifications = <<>>

NextPrices ==
    \/ MonitorPriceChanges
    \/ FetchAllPrices
    \/ CompareAndNotify
    \/ PriceSleep

\* C13: a source that errors or does not respond is left out of the cycle's
\* price map and does not block the cycle: the fetch is never stuck, and the
\* map it returns has an entry exactly for the sources that returned a price.
C13_FailedSourceExcluded ==
    /\ ppc # "blocked"
    /\ ppc = "fetched" =>
          DOMAIN current_prices = {m \in MarketSet : responses[m].kind = "returns"}

\* A relative change of more than 1 % between two prices.
SignificantChange(before, price) ==
    /\ before # None
    /\ price # None
    /\ before.price # 0
    /\ LET diff == price.price - before.price
       IN (IF diff < 0 THEN -diff ELSE diff) * 100
              > (IF before.price < 0 THEN -before.price ELSE before.price)

\* C19: in every cycle the callback is awaited with (market, previous price,
\* current price) exactly for the markets of both price maps whose relative
\* change exceeds 1 %, and the loop goes on to its next cycle.
C19_CallbackIffSignificantAndProceeds ==
    [][CompareAndNotify =>
          /\ ppc' = "sleep"
          /\ {notifications'[i] : i \in 1..Len(notifications')} =
                {<<m, previous_prices[m], current_prices[m]>> :
                    m \in {x \in DOMAIN previous_prices \cap DOMAIN current_prices :
                              SignificantChange(previous_prices[x], current_prices[x])}}
      ]_vars

-----------------------------------------------------------------------------
Init == InitRegistry /\ InitExec /\ InitFinder /\ InitMonitor /\ InitPrices

SpecRegistry == Init /\ [][NextRegistry]_vars

SpecExec == Init /\ [][NextExec]_vars

SpecFinder == Init /\ [][NextFinder]_vars

SpecMonitor == Init /\ [][NextMonitor]_vars

SpecPrices == Init /\ [][NextPrices]_vars

=============================================================================
